---- MODULE Spec2Model ----
(***************************************************************************)
(* The AzureAD component of react-aad-msal (src/src/AzureAD.tsx): a React  *)
(* class component that mirrors an MsalAuthProvider's authentication state *)
(* and account info in this.state, exposes login/logout and resolves what  *)
(* to render for each state.                                               *)
(*                                                                         *)
(* this.setState is React's: on a mounted component an update is either    *)
(* applied synchronously inside the call (no batch is open) or put on the  *)
(* component's update queue and applied, with every other queued update,   *)
(* by the next render pass; completion callbacks run after that pass.  On  *)
(* a component that is not mounted (inside the constructor, or after       *)
(* componentWillUnmount) setState changes nothing and never runs its       *)
(* callback.                                                               *)
(***************************************************************************)
EXTENDS Naturals, Sequences, FiniteSets

VARIABLES
  phase,      \* "new" | "constructed" | "mounted" | "unmounted"
  props,      \* this.props: forceLogin, accountInfoCallback supplied or not
  handlers,   \* the provider's registered handlers, per channel
  state,      \* this.state: the snapshot {authenticationState, accountInfo}
  queue,      \* React's pending setState updates of this component
  callbacks,  \* setState completion callbacks of the pass being committed
  held,       \* the login/logout functions render() has handed to the caller
  delivered,  \* the last value each handler was called with while mounted
  loginCalled, \* the provider's login was called since this.state last became
              \* Unauthenticated (since construction, if it was so from the start)
  last        \* the last operation: its input, this.state before it, the
              \* content it resolved (a render) and the calls it made, in order

vars == <<phase, props, handlers, state, queue, callbacks,
          held, delivered, loginCalled, last>>

\* Pending updates the model lets the update queue hold at a time.
MaxPending == 2

----------------------------------------------------------------------------
(* Values *)

Unauthenticated == "Unauthenticated"
InProgress == "InProgress"
Authenticated == "Authenticated"
AuthenticationState == {Unauthenticated, InProgress, Authenticated}

Null == "null"
Accounts == {"account1", "account2"}

None == "-"

\* The props render() reads: the two deprecated functions and children.
\* Each function is described by what it returns.
RenderProps ==
  [authenticatedFunction : {"absent", "returnsEmpty", "returnsContent"},
   unauthenticatedFunction : {"absent", "returnsEmpty", "returnsContent"},
   children : {"absent", "static", "function"}]

\* A call the component makes to the outside: which function, its argument
\* (for children, the props bundle), and this.state at the moment of the call.
Call(fn, arg, snap) == [fn |-> fn, arg |-> arg, at |-> snap]

\* The record of an operation; before is this.state as the operation found it.
Op(op, arg, content, calls) ==
  [op |-> op, arg |-> arg, before |-> state, content |-> content, calls |-> calls]

CallsTo(calls, fn) == {i \in DOMAIN calls : calls[i].fn = fn}

----------------------------------------------------------------------------
(* The provider's handler lists (MsalAuthProvider, outside this file) *)

registerHandler(list, handler) == Append(list, handler)

unregisterHandler(list, handler) == SelectSeq(list, LAMBDA h : h # handler)

----------------------------------------------------------------------------
(* login, logout *)

loginWhenUnauthenticated(snap) ==
  IF snap.authenticationState # Unauthenticated
    THEN <<>>
    ELSE <<Call("provider.login", None, snap)>>

\* private login: this.authProvider.login()
login(snap) == <<Call("provider.login", None, snap)>>

\* private logout: returns early unless this.state is Authenticated
logout(snap) ==
  IF snap.authenticationState # Authenticated
    THEN <<>>
    ELSE <<Call("provider.logout", None, snap)>>

\* What each function that reaches the caller does when the caller calls it:
\* this.login and this.logout are the component's, provider.login and
\* provider.logout are the provider's own, destructured in render().
Invoke(handle, snap) ==
  CASE handle = "this.login" -> login(snap)
    [] handle = "this.logout" -> logout(snap)
    [] handle = "provider.login" -> <<Call("provider.login", None, snap)>>
    [] handle = "provider.logout" -> <<Call("provider.logout", None, snap)>>

Handles == {"this.login", "this.logout", "provider.login", "provider.logout"}

----------------------------------------------------------------------------
(* render *)

\* childrenFunctionProps: built from this.state and the provider's functions
childrenFunctionProps(snap) ==
  [accountInfo |-> snap.accountInfo,
   authenticationState |-> snap.authenticationState,
   login |-> "provider.login",
   logout |-> "provider.logout"]

Resolved(content, calls) == [content |-> content, calls |-> calls]

\* What a caller's function returns: an element, or nothing.
ResultOf(fn, element) == IF fn = "returnsContent" THEN element ELSE Null

getChildrenOrFunctionNeverCalls(children, snap) ==
  IF children # "absent" THEN Resolved("children", <<>>) ELSE Resolved(Null, <<>>)

\* getChildrenOrFunction: a function is called with the bundle, static
\* children are returned as they are, absent children give null.
getChildrenOrFunction(children, snap) ==
  IF children # "absent"
    THEN IF children = "function"
           THEN Resolved("childrenResult",
                         <<Call("children", childrenFunctionProps(snap), snap)>>)
           ELSE Resolved("children", <<>>)
    ELSE Resolved(Null, <<>>)

renderAuthenticatedAlwaysWarns(rp, snap) ==
  LET generic == getChildrenOrFunction(rp.children, snap)
  IN  IF rp.authenticatedFunction # "absent"
        THEN IF ResultOf(rp.authenticatedFunction, "authenticatedContent") # Null
               THEN Resolved("authenticatedContent",
                             <<Call("authenticatedFunction", "this.logout", snap),
                               Call("console.warn", "authenticatedFunction", snap)>>)
               ELSE Resolved(generic.content,
                             <<Call("authenticatedFunction", "this.logout", snap),
                               Call("console.warn", "authenticatedFunction", snap)>>
                             \o generic.calls)
        ELSE generic

renderAuthenticated(rp, snap) ==
  LET called == IF rp.authenticatedFunction # "absent"
                  THEN <<Call("authenticatedFunction", "this.logout", snap)>>
                  ELSE <<>>
      authFunctionResult == ResultOf(rp.authenticatedFunction, "authenticatedContent")
      generic == getChildrenOrFunction(rp.children, snap)
  IN  IF rp.authenticatedFunction # "absent" /\ authFunctionResult # Null
        THEN Resolved(authFunctionResult,
                      called \o <<Call("console.warn", "authenticatedFunction", snap)>>)
        ELSE Resolved(generic.content, called \o generic.calls)

renderUnauthenticatedFallsBack(rp, snap) ==
  LET generic == getChildrenOrFunction(rp.children, snap)
      warned == <<Call("console.warn", "unauthenticatedFunction", snap),
                  Call("unauthenticatedFunction", "this.login", snap)>>
  IN  IF rp.unauthenticatedFunction # "absent"
        THEN IF ResultOf(rp.unauthenticatedFunction, "unauthenticatedContent") # Null
               THEN Resolved("unauthenticatedContent", warned)
               ELSE Resolved(generic.content, warned \o generic.calls)
        ELSE generic

renderUnauthenticated(rp, snap) ==
  IF rp.unauthenticatedFunction # "absent"
    THEN Resolved(ResultOf(rp.unauthenticatedFunction, "unauthenticatedContent"),
                  <<Call("console.warn", "unauthenticatedFunction", snap),
                    Call("unauthenticatedFunction", "this.login", snap)>>)
    ELSE getChildrenOrFunction(rp.children, snap)

renderDefaultResolvesChildren(rp, snap) == getChildrenOrFunction(rp.children, snap)

\* The switch's default branch: any other state.
renderDefault(rp, snap) == Resolved(Null, <<>>)

render(rp, snap) ==
  CASE snap.authenticationState = Authenticated -> renderAuthenticated(rp, snap)
    [] snap.authenticationState = Unauthenticated -> renderUnauthenticated(rp, snap)
    [] OTHER -> renderDefault(rp, snap)

\* The functions a call hands to the caller.
HandlesOf(call) ==
  CASE call.fn \in {"authenticatedFunction", "unauthenticatedFunction"} -> {call.arg}
    [] call.fn = "children" -> {call.arg.login, call.arg.logout}
    [] OTHER -> {}

Given(calls) == UNION {HandlesOf(calls[i]) : i \in DOMAIN calls}

----------------------------------------------------------------------------
(* setState: the update queue *)

Update(field, value, callback) ==
  [field |-> field, value |-> value, callback |-> callback]

ApplyUpdateClearsAccount(snap, u) ==
  IF u.field = "authenticationState"
    THEN [authenticationState |-> u.value, accountInfo |-> Null]
    ELSE [snap EXCEPT ![u.field] = u.value]

ApplyUpdate(snap, u) == [snap EXCEPT ![u.field] = u.value]

RECURSIVE ApplyAll(_, _)
ApplyAll(snap, q) ==
  IF q = <<>> THEN snap ELSE ApplyAll(ApplyUpdate(snap, Head(q)), Tail(q))

CallbacksOf(q) == SelectSeq(q, LAMBDA u : u.callback)

\* this.setState(u) in a handler.  Not mounted: nothing happens.  Mounted and
\* batched: the update is queued.  Mounted and not batched (nothing is
\* pending): the update is applied and the component re-rendered in the call.
SetState(u, batched, rp) ==
  \/ /\ phase # "mounted"
     /\ UNCHANGED <<state, queue, callbacks, held>>
  \/ /\ phase = "mounted" /\ batched
     /\ Len(queue) < MaxPending
     /\ queue' = Append(queue, u)
     /\ UNCHANGED <<state, callbacks, held>>
  \/ /\ phase = "mounted" /\ ~batched
     /\ queue = <<>> /\ callbacks = <<>>
     /\ state' = ApplyUpdate(state, u)
     /\ held' = held \cup Given(render(rp, ApplyUpdate(state, u)).calls)
     /\ callbacks' = CallbacksOf(<<u>>)
     /\ UNCHANGED queue

\* this.state right after that setState returns, and what its render resolved.
AfterSetState(u, batched) ==
  IF phase = "mounted" /\ ~batched THEN ApplyUpdate(state, u) ELSE state

SetStateRender(u, batched, rp) ==
  IF phase = "mounted" /\ ~batched
    THEN render(rp, ApplyUpdate(state, u))
    ELSE Resolved(None, <<>>)

----------------------------------------------------------------------------
(* The component *)

\* What the provider can report at construction: account info only for a
\* signed-in user.
Snapshots ==
  {snap \in [authenticationState : AuthenticationState,
             accountInfo : Accounts \cup {Null}] :
     snap.accountInfo # Null => snap.authenticationState = Authenticated}

\* Bookkeeping of the step just taken: a step that makes this.state
\* Unauthenticated starts a new period, a call of the provider's login marks
\* the period.
NoteLogin ==
  LET called == CallsTo(last'.calls, "provider.login") # {}
  IN  loginCalled' =
        IF state.authenticationState # Unauthenticated
           /\ state'.authenticationState = Unauthenticated
          THEN called
          ELSE loginCalled \/ called

\* The instance after its field initialisers ran: this.state holds what the
\* provider reports; the constructor body has not run yet.
Init ==
  /\ phase = "new"
  /\ props \in [forceLogin : BOOLEAN, accountInfoCallback : BOOLEAN]
  /\ handlers = [authenticationState |-> <<>>, accountInfo |-> <<>>]
  /\ state \in Snapshots
  /\ queue = <<>>
  /\ callbacks = <<>>
  /\ held = {}
  /\ delivered = [authenticationState |-> None, accountInfo |-> None]
  /\ loginCalled = FALSE
  /\ last = Op("none", None, None, <<>>)

\* The tail of onAccountInfoChanged: the deprecated callback, with a warning.
notifyAccountInfoCallback(newAccountInfo, snap) ==
  IF props.accountInfoCallback
    THEN <<Call("console.warn", "accountInfoCallback", snap),
           Call("accountInfoCallback", newAccountInfo, snap)>>
    ELSE <<>>

\* The calls of one onAccountInfoChanged(newAccountInfo): setState, whatever a
\* synchronous re-render calls, then the callback; before and after are
\* this.state around the setState.
onAccountInfoChangedCalls(newAccountInfo, before, renderCalls, after) ==
  <<Call("this.setState", Update("accountInfo", newAccountInfo, FALSE), before)>>
  \o renderCalls
  \o notifyAccountInfoCallback(newAccountInfo, after)

constructorCallsNoForcedLogin(snap) ==
  IF snap.authenticationState = Authenticated /\ snap.accountInfo # Null
    THEN onAccountInfoChangedCalls(snap.accountInfo, snap, <<>>, snap)
    ELSE <<>>

constructorCallsWithoutAccountCheck(snap) ==
  IF snap.authenticationState = Authenticated
    THEN onAccountInfoChangedCalls(snap.accountInfo, snap, <<>>, snap)
    ELSE IF snap.authenticationState = Unauthenticated /\ props.forceLogin
           THEN login(snap)
           ELSE <<>>

\* The branch the constructor takes on the state it was constructed with.
\* The setState of its onAccountInfoChanged call finds no mounted component.
constructorCalls(snap) ==
  IF snap.authenticationState = Authenticated
    THEN IF snap.accountInfo # Null
           THEN onAccountInfoChangedCalls(snap.accountInfo, snap, <<>>, snap)
           ELSE <<>>
    ELSE IF snap.authenticationState = Unauthenticated
           THEN IF props.forceLogin THEN login(snap) ELSE <<>>
           ELSE <<>>

constructor ==
  /\ phase = "new"
  /\ handlers' =
       [authenticationState |->
          registerHandler(handlers.authenticationState, "setAuthenticationState"),
        accountInfo |->
          registerHandler(handlers.accountInfo, "onAccountInfoChanged")]
  /\ phase' = "constructed"
  /\ last' = Op("constructor", None, None,
                <<Call("provider.registerAuthenticationStateHandler",
                       "setAuthenticationState", state),
                  Call("provider.registerAcountInfoHandler",
                       "onAccountInfoChanged", state)>>
                \o constructorCalls(state))
  /\ UNCHANGED <<props, state, queue, callbacks, held, delivered>>
  /\ NoteLogin

\* React mounts the component: the first render().
Mount(rp) ==
  /\ phase = "constructed"
  /\ phase' = "mounted"
  /\ LET resolved == render(rp, state)
     IN  /\ held' = held \cup Given(resolved.calls)
         /\ last' = Op("render", None, resolved.content, resolved.calls)
  /\ UNCHANGED <<props, handlers, state, queue, callbacks, delivered>>
  /\ NoteLogin

\* The parent renders again, possibly with other content props.
Render(rp) ==
  /\ phase = "mounted"
  /\ queue = <<>> /\ callbacks = <<>>
  /\ LET resolved == render(rp, state)
     IN  /\ held' = held \cup Given(resolved.calls)
         /\ last' = Op("render", None, resolved.content, resolved.calls)
  /\ UNCHANGED <<phase, props, handlers, state, queue, callbacks, delivered>>
  /\ NoteLogin

\* React's render pass over the queued updates: all of them are applied, in
\* order, render() runs once, and their callbacks wait for the commit.
ApplyUpdates(rp) ==
  /\ phase = "mounted"
  /\ queue # <<>> /\ callbacks = <<>>
  /\ state' = ApplyAll(state, queue)
  /\ queue' = <<>>
  /\ callbacks' = CallbacksOf(queue)
  /\ LET resolved == render(rp, ApplyAll(state, queue))
     IN  /\ held' = held \cup Given(resolved.calls)
         /\ last' = Op("applyUpdates", None, resolved.content, resolved.calls)
  /\ UNCHANGED <<phase, props, handlers, delivered>>
  /\ NoteLogin

stateCallbackNeverLogsIn(newState, snap) == <<>>

stateCallbackIgnoresForceLogin(newState, snap) ==
  IF newState = Unauthenticated THEN login(snap) ELSE <<>>

\* The callback setAuthenticationState gave to setState; newState is the
\* value its closure holds.
stateCallback(newState, snap) ==
  IF newState = Unauthenticated /\ props.forceLogin THEN login(snap) ELSE <<>>

\* The commit runs the callbacks of the applied updates, in order.
RunCallback ==
  /\ callbacks # <<>>
  /\ callbacks' = Tail(callbacks)
  /\ last' = Op("callback", Head(callbacks).value, None,
                stateCallback(Head(callbacks).value, state))
  /\ UNCHANGED <<phase, props, handlers, state, queue, held, delivered>>
  /\ NoteLogin

stateChangedAlways(newState, snap) == TRUE

\* Whether setAuthenticationState goes on to setState.
stateChanged(newState, snap) == newState # snap.authenticationState

\* The content props a handler's synchronous re-render can see.
SyncProps(batched) ==
  IF phase = "mounted" /\ ~batched
    THEN RenderProps
    ELSE {CHOOSE rp \in RenderProps : TRUE}

Deliver(field, value) ==
  delivered' = IF phase = "mounted"
                 THEN [delivered EXCEPT ![field] = value]
                 ELSE delivered

\* The provider delivers a state change.  The commit of a render pass, its
\* callbacks included, has run to its end before the handler is entered.
setAuthenticationState(newState, batched) ==
  /\ phase # "new"
  /\ callbacks = <<>>
  /\ Deliver("authenticationState", newState)
  /\ IF stateChanged(newState, state)
       THEN \E rp \in SyncProps(batched) :
              LET u == Update("authenticationState", newState, TRUE)
                  resolved == SetStateRender(u, batched, rp)
              IN  /\ SetState(u, batched, rp)
                  /\ last' = Op("setAuthenticationState", newState, resolved.content,
                                <<Call("this.setState", u, state)>> \o resolved.calls)
       ELSE /\ last' = Op("setAuthenticationState", newState, None, <<>>)
            /\ UNCHANGED <<state, queue, callbacks, held>>
  /\ UNCHANGED <<phase, props, handlers>>
  /\ NoteLogin

setAccountInfoIfDifferent(newAccountInfo, batched, rp) ==
  IF newAccountInfo = state.accountInfo
    THEN UNCHANGED <<state, queue, callbacks, held>>
    ELSE SetState(Update("accountInfo", newAccountInfo, FALSE), batched, rp)

\* onAccountInfoChanged's setState: unconditional.
setAccountInfo(newAccountInfo, batched, rp) ==
  SetState(Update("accountInfo", newAccountInfo, FALSE), batched, rp)

\* The provider delivers account info.
onAccountInfoChanged(newAccountInfo, batched) ==
  /\ phase # "new"
  /\ callbacks = <<>>
  /\ Deliver("accountInfo", newAccountInfo)
  /\ \E rp \in SyncProps(batched) :
       LET u == Update("accountInfo", newAccountInfo, FALSE)
           resolved == SetStateRender(u, batched, rp)
       IN  /\ setAccountInfo(newAccountInfo, batched, rp)
           /\ last' = Op("onAccountInfoChanged", newAccountInfo, resolved.content,
                         onAccountInfoChangedCalls(newAccountInfo, state,
                                                   resolved.calls,
                                                   AfterSetState(u, batched)))
  /\ UNCHANGED <<phase, props, handlers>>
  /\ NoteLogin

componentWillUnmountKeepsAccountHandler ==
  /\ phase = "mounted"
  /\ callbacks = <<>>
  /\ handlers' =
       [handlers EXCEPT !.authenticationState =
          unregisterHandler(handlers.authenticationState, "setAuthenticationState")]
  /\ phase' = "unmounted"
  /\ queue' = <<>>
  /\ last' = Op("componentWillUnmount", None, None,
                <<Call("provider.unregisterAuthenticationStateHandler",
                       "setAuthenticationState", state)>>)
  /\ UNCHANGED <<props, state, callbacks, held, delivered>>
  /\ NoteLogin

\* React unmounts the component; updates still queued are never applied.
componentWillUnmount ==
  /\ phase = "mounted"
  /\ callbacks = <<>>
  /\ handlers' =
       [authenticationState |->
          unregisterHandler(handlers.authenticationState, "setAuthenticationState"),
        accountInfo |->
          unregisterHandler(handlers.accountInfo, "onAccountInfoChanged")]
  /\ phase' = "unmounted"
  /\ queue' = <<>>
  /\ last' = Op("componentWillUnmount", None, None,
                <<Call("provider.unregisterAuthenticationStateHandler",
                       "setAuthenticationState", state),
                  Call("provider.unregisterAccountInfoHandler",
                       "onAccountInfoChanged", state)>>)
  /\ UNCHANGED <<props, state, callbacks, held, delivered>>
  /\ NoteLogin

\* The caller calls a login or logout function that render() handed out, now
\* or in an earlier render.  It does so from a task of its own (an event
\* handler, a timer), which React runs with no update of the component pending.
CallerInvokes(handle) ==
  /\ phase = "mounted"
  /\ queue = <<>> /\ callbacks = <<>>
  /\ handle \in held
  /\ last' = Op("invoke", handle, None, Invoke(handle, state))
  /\ UNCHANGED <<phase, props, handlers, state, queue, callbacks, held, delivered>>
  /\ NoteLogin

Next ==
  \/ constructor
  \/ \E rp \in RenderProps : Mount(rp)
  \/ \E rp \in RenderProps : Render(rp)
  \/ \E rp \in RenderProps : ApplyUpdates(rp)
  \/ RunCallback
  \/ \E newState \in AuthenticationState, batched \in BOOLEAN :
       setAuthenticationState(newState, batched)
  \/ \E newAccountInfo \in Accounts, batched \in BOOLEAN :
       onAccountInfoChanged(newAccountInfo, batched)
  \/ componentWillUnmount
  \/ \E handle \in Handles : CallerInvokes(handle)

Spec == Init /\ [][Next]_vars

----------------------------------------------------------------------------
(* Properties *)

Live == phase = "mounted"

Quiescent == queue = <<>> /\ callbacks = <<>>

\* How many calls of the last operation went to fn.
Count(fn) == Cardinality(CallsTo(last.calls, fn))

ContentFunctions == {"authenticatedFunction", "unauthenticatedFunction", "children"}

\* C1: on a live bridge, once every pending update is applied, the snapshot's
\* authenticationState is the value of the last state notification delivered.
C1_SnapshotIsLastDeliveredState ==
  (Live /\ Quiescent /\ delivered.authenticationState # None)
    => state.authenticationState = delivered.authenticationState

\* C2: a state notification whose value equals the snapshot's current
\* authenticationState changes nothing: no setState (so no update is queued
\* or applied), no render, no call to the outside (no login), and the
\* snapshot stays as it was, also for Unauthenticated under forceLogin.
C2_EqualStateIsNoOp ==
  (last.op = "setAuthenticationState"
   /\ last.arg = last.before.authenticationState)
    => /\ last.calls = <<>>
       /\ last.content = None
       /\ state = last.before
       /\ (Live /\ queue # <<>>
             => queue[Len(queue)] # Update("authenticationState", last.arg, TRUE))

C2_Witness ==
  /\ Live /\ Quiescent
  /\ props.forceLogin
  /\ last.op = "setAuthenticationState"
  /\ last.arg = Unauthenticated
  /\ last.before.authenticationState = Unauthenticated
  /\ last.calls = <<>>

\* C3: on a live bridge, once the pending updates are applied the snapshot's
\* accountInfo is the last account info delivered; and every account-info
\* notification calls setState with its value and leaves its update last on
\* the queue, or applied when nothing is batched, also when the value equals
\* the current one.
C3_AccountInfoIsLastDelivered ==
  /\ (Live /\ Quiescent /\ delivered.accountInfo # None)
       => state.accountInfo = delivered.accountInfo
  /\ (Live /\ last.op = "onAccountInfoChanged")
       => /\ last.calls[1] =
               Call("this.setState", Update("accountInfo", last.arg, FALSE), last.before)
          /\ \/ /\ queue # <<>>
                /\ queue[Len(queue)] = Update("accountInfo", last.arg, FALSE)
             \/ /\ queue = <<>>
                /\ last.content # None
                /\ state = [last.before EXCEPT !.accountInfo = last.arg]

C3_Witness ==
  /\ Live
  /\ last.op = "onAccountInfoChanged"
  /\ last.arg = last.before.accountInfo
  /\ queue # <<>>
  /\ queue[Len(queue)] = Update("accountInfo", last.arg, FALSE)

\* C4: while the snapshot is not Authenticated, calling a logout function the
\* bridge handed out (this.logout, given to authenticatedFunction, or the
\* bundle's logout, given to a children function) makes no call to the
\* provider's logout.
C4_ExposedLogoutIsGuarded ==
  (last.op = "invoke"
   /\ last.arg \in {"this.logout", "provider.logout"}
   /\ state.authenticationState # Authenticated)
    => Count("provider.logout") = 0

\* C5: after componentWillUnmount, a late call of either handler leaves the
\* snapshot as it was, calls no provider login and no accountInfoCallback.
C5_LateNotificationIsNoOp ==
  (phase = "unmounted"
   /\ last.op \in {"setAuthenticationState", "onAccountInfoChanged"})
    => /\ state = last.before
       /\ Count("provider.login") = 0
       /\ Count("accountInfoCallback") = 0

RegistrationCalls ==
  {"provider.registerAuthenticationStateHandler",
   "provider.registerAcountInfoHandler",
   "provider.unregisterAuthenticationStateHandler",
   "provider.unregisterAccountInfoHandler"}

\* Exactly one call of the last operation went to fn, with argument arg.
CalledOnceWith(fn, arg) ==
  /\ Count(fn) = 1
  /\ \A i \in CallsTo(last.calls, fn) : last.calls[i].arg = arg

\* C6: each channel has at most one registration of the bridge's handler at
\* any time; the constructor registers each handler once, componentWillUnmount
\* unregisters each once, by the same handler, no other operation registers
\* or unregisters, and after teardown no handler of the bridge is registered.
C6_OneRegistrationPerChannel ==
  /\ Len(handlers.authenticationState) <= 1
  /\ Len(handlers.accountInfo) <= 1
  /\ phase \in {"new", "unmounted"}
       => handlers = [authenticationState |-> <<>>, accountInfo |-> <<>>]
  /\ phase \in {"constructed", "mounted"}
       => handlers = [authenticationState |-> <<"setAuthenticationState">>,
                      accountInfo |-> <<"onAccountInfoChanged">>]
  /\ last.op = "constructor"
       => /\ CalledOnceWith("provider.registerAuthenticationStateHandler",
                            "setAuthenticationState")
          /\ CalledOnceWith("provider.registerAcountInfoHandler",
                            "onAccountInfoChanged")
  /\ last.op = "componentWillUnmount"
       => /\ CalledOnceWith("provider.unregisterAuthenticationStateHandler",
                            "setAuthenticationState")
          /\ CalledOnceWith("provider.unregisterAccountInfoHandler",
                            "onAccountInfoChanged")
  /\ last.op \notin {"constructor", "componentWillUnmount"}
       => \A fn \in RegistrationCalls : Count(fn) = 0

C6_Witness ==
  /\ phase = "unmounted"
  /\ last.op = "componentWillUnmount"
  /\ handlers.accountInfo = <<>>

C8_ConstructorForcesLogin ==
  (last.op = "constructor"
   /\ props.forceLogin
   /\ last.before.authenticationState = Unauthenticated)
    => Count("provider.login") = 1

C8_Witness ==
  /\ last.op = "constructor"
  /\ props.forceLogin
  /\ last.before.authenticationState = Unauthenticated
  /\ Count("provider.login") = 1

C10_InProgressResolvesToNothing ==
  (last.content # None
   /\ state.authenticationState \notin {Authenticated, Unauthenticated})
    => /\ last.content = Null
       /\ \A fn \in ContentFunctions : Count(fn) = 0
       /\ \A i \in CallsTo(last.calls, "console.warn") :
            last.calls[i].arg \notin ContentFunctions

C10_Witness ==
  /\ Live
  /\ last.op = "applyUpdates"
  /\ state.authenticationState = InProgress
  /\ last.before.authenticationState = Authenticated
  /\ held # {}
  /\ last.content = Null

\* How many of calls went to fn.
CountIn(calls, fn) == Cardinality(CallsTo(calls, fn))

\* C11: with the snapshot Authenticated, no authenticatedFunction supplied and
\* a function as children, render returns that function's result; the
\* function is called once, nothing else is called, and its argument holds the
\* snapshot's accountInfo, authenticationState = Authenticated, and the
\* provider's login and logout.
C11_AuthenticatedChildrenFunction ==
  state.authenticationState = Authenticated =>
    \A rp \in RenderProps :
      (rp.authenticatedFunction = "absent" /\ rp.children = "function")
        => /\ render(rp, state).content = "childrenResult"
           /\ render(rp, state).calls =
                <<Call("children",
                       [accountInfo |-> state.accountInfo,
                        authenticationState |-> Authenticated,
                        login |-> "provider.login",
                        logout |-> "provider.logout"],
                       state)>>

C11_Witness ==
  /\ Live
  /\ last.op = "applyUpdates"
  /\ state.authenticationState = Authenticated
  /\ state.accountInfo \in Accounts
  /\ last.content = "childrenResult"
  /\ Count("authenticatedFunction") = 0
  /\ Count("children") = 1
  /\ last.calls[1].arg.accountInfo = state.accountInfo

\* C12: when the callback of an update to Unauthenticated calls the
\* provider's login under forceLogin, the render pass that has just committed
\* showed an Unauthenticated snapshot: the snapshot at the moment of the call
\* is Unauthenticated, so no later notification made the pass skip it.
C12_UnauthenticatedRenderedBeforeLogin ==
  (Live /\ props.forceLogin /\ last.op = "callback" /\ last.arg = Unauthenticated)
    => \A i \in CallsTo(last.calls, "provider.login") :
         last.calls[i].at.authenticationState = Unauthenticated

\* C13: on a live bridge with accountInfoCallback supplied, onAccountInfoChanged
\* calls the callback exactly once with the new value, warns exactly once, and
\* the snapshot's accountInfo at the moment of the callback is the new value.
C13_CallbackSeesNewAccountInfo ==
  (Live /\ props.accountInfoCallback /\ last.op = "onAccountInfoChanged")
    => /\ CalledOnceWith("accountInfoCallback", last.arg)
       /\ Cardinality({i \in CallsTo(last.calls, "console.warn") :
                         last.calls[i].arg = "accountInfoCallback"}) = 1
       /\ \A i \in CallsTo(last.calls, "accountInfoCallback") :
            last.calls[i].at.accountInfo = last.arg

\* What each handler hands to setState when it is called with snapshot snap.
stateUpdates(newState, snap) ==
  IF stateChanged(newState, snap)
    THEN <<Update("authenticationState", newState, TRUE)>>
    ELSE <<>>

accountUpdates(newAccountInfo) == <<Update("accountInfo", newAccountInfo, FALSE)>>

\* The fields the setState calls of the last operation write.
FieldsSet == {last.calls[i].arg.field : i \in CallsTo(last.calls, "this.setState")}

\* C14: setAuthenticationState leaves accountInfo alone and onAccountInfoChanged
\* leaves authenticationState alone (in the snapshot and in the update each
\* hands to setState); and from every reachable state, a state notification
\* and an account-info notification give the same final snapshot in either
\* order, both when they are queued behind the pending updates and when each
\* is applied inside its own call.
C14_HandlersAreIndependent ==
  /\ last.op = "setAuthenticationState"
       => /\ state.accountInfo = last.before.accountInfo
          /\ FieldsSet \subseteq {"authenticationState"}
  /\ last.op = "onAccountInfoChanged"
       => /\ state.authenticationState = last.before.authenticationState
          /\ FieldsSet = {"accountInfo"}
  /\ \A newState \in AuthenticationState, newAccountInfo \in Accounts :
       /\ ApplyAll(state, queue \o stateUpdates(newState, state)
                                \o accountUpdates(newAccountInfo))
            = ApplyAll(state, queue \o accountUpdates(newAccountInfo)
                                    \o stateUpdates(newState, state))
       /\ LET afterState == ApplyAll(state, stateUpdates(newState, state))
              afterAccount == ApplyAll(state, accountUpdates(newAccountInfo))
          IN  ApplyAll(afterState, accountUpdates(newAccountInfo))
                = ApplyAll(afterAccount, stateUpdates(newState, afterAccount))

C14_Witness ==
  /\ Live
  /\ last.op = "setAuthenticationState"
  /\ state.accountInfo \in Accounts
  /\ Len(queue) = 2
  /\ queue[1].field = "accountInfo" /\ queue[1].value # state.accountInfo
  /\ queue[2].field = "authenticationState"

\* C15: with the snapshot Authenticated and authenticatedFunction supplied,
\* render calls it once with this.logout.  A non-empty result is returned with
\* one deprecation warning and the children are not resolved; an empty result
\* gives no warning and render returns what getChildrenOrFunction returns.
C15_AuthenticatedFunction ==
  state.authenticationState = Authenticated =>
    \A rp \in RenderProps :
      rp.authenticatedFunction # "absent" =>
        LET resolved == render(rp, state)
            generic == getChildrenOrFunction(rp.children, state)
            called == Call("authenticatedFunction", "this.logout", state)
        IN  /\ resolved.calls[1] = called
            /\ CountIn(resolved.calls, "authenticatedFunction") = 1
            /\ IF rp.authenticatedFunction = "returnsContent"
                 THEN /\ resolved.content = "authenticatedContent"
                      /\ resolved.calls =
                           <<called,
                             Call("console.warn", "authenticatedFunction", state)>>
                      /\ CountIn(resolved.calls, "children") = 0
                 ELSE /\ CountIn(resolved.calls, "console.warn") = 0
                      /\ resolved.content = generic.content
                      /\ resolved.calls = <<called>> \o generic.calls

C15_Witness ==
  /\ Live
  /\ last.op = "render"
  /\ state.authenticationState = Authenticated
  /\ Count("authenticatedFunction") = 1
  /\ Count("console.warn") = 0
  /\ Count("children") = 1
  /\ last.content = "childrenResult"

\* C16: with the snapshot Unauthenticated and unauthenticatedFunction supplied,
\* render always emits one deprecation warning, calls the function once with
\* this.login, and returns its result, or null when the result is empty; the
\* children are never resolved.
C16_UnauthenticatedFunction ==
  state.authenticationState = Unauthenticated =>
    \A rp \in RenderProps :
      rp.unauthenticatedFunction # "absent" =>
        LET resolved == render(rp, state)
        IN  /\ resolved.calls =
                 <<Call("console.warn", "unauthenticatedFunction", state),
                   Call("unauthenticatedFunction", "this.login", state)>>
            /\ resolved.content =
                 (IF rp.unauthenticatedFunction = "returnsContent"
                    THEN "unauthenticatedContent"
                    ELSE Null)
            /\ resolved.content \notin {"children", "childrenResult"}

C16_Witness ==
  /\ Live
  /\ last.op = "applyUpdates"
  /\ last.before.authenticationState = Authenticated
  /\ state.authenticationState = Unauthenticated
  /\ Count("unauthenticatedFunction") = 1
  /\ Count("console.warn") = 1
  /\ Count("children") = 0
  /\ last.content = Null

\* C17: whenever the snapshot's authenticationState is Unauthenticated, its
\* accountInfo is null.
C17_UnauthenticatedHasNoAccount ==
  state.authenticationState = Unauthenticated => state.accountInfo = Null

\* C18: the constructor, render, a setState callback, componentWillUnmount and
\* the caller's use of login or logout leave the snapshot as it was (it changes
\* only in a handler's call or when the updates the handlers queued are
\* applied); and each call of this.login, in any state, makes exactly one call
\* of the provider's login and nothing else.
C18_OnlyHandlersChangeSnapshot ==
  /\ last.op \in {"constructor", "render", "callback", "invoke",
                  "componentWillUnmount"}
       => state = last.before
  /\ (last.op = "invoke" /\ last.arg = "this.login")
       => last.calls = <<Call("provider.login", None, state)>>
  /\ CountIn(Invoke("this.login", state), "provider.login") = 1

C18_Witness ==
  /\ last.op = "invoke"
  /\ last.arg = "this.login"
  /\ state = [authenticationState |-> Authenticated, accountInfo |-> "account2"]
  /\ Count("provider.login") = 1

\* C19: outside a caller's own call, the bridge never calls the provider's
\* logout, and it calls the provider's login only with forceLogin true, either
\* in the constructor with the state Unauthenticated or in the callback of an
\* update to Unauthenticated.
C19_LoginOnlyWhenForced ==
  last.op # "invoke" =>
    /\ Count("provider.logout") = 0
    /\ Count("provider.login") > 0
         => /\ props.forceLogin
            /\ \/ last.op = "constructor"
                    /\ last.before.authenticationState = Unauthenticated
               \/ last.op = "callback" /\ last.arg = Unauthenticated

C19_Witness ==
  /\ Live
  /\ ~props.forceLogin
  /\ last.op = "callback"
  /\ last.arg = Unauthenticated
  /\ state.authenticationState = Unauthenticated
  /\ last.calls = <<>>

\* C20: with forceLogin true, in every state of a mounted bridge with no
\* update and no callback pending and the snapshot Unauthenticated, the
\* provider's login has been called since the snapshot last became
\* Unauthenticated, or since construction if it was Unauthenticated from the
\* start.
C20_QuiescentUnauthenticatedHasLoggedIn ==
  (props.forceLogin /\ Live /\ Quiescent
     /\ state.authenticationState = Unauthenticated)
    => loginCalled

C20_Witness ==
  /\ props.forceLogin /\ Live /\ Quiescent
  /\ state.authenticationState = Unauthenticated
  /\ last.op = "callback"
  /\ last.arg = Unauthenticated
  /\ last.calls = <<Call("provider.login", None, state)>>
  /\ loginCalled

====
